---------------------------- MODULE Spec2Model ----------------------------
(***************************************************************************)
(* Two integration handlers of mindsdb:                                    *)
(*   - MLflowIntegration (mlflow_integration.py): a sqlite table `models`  *)
(*     of linked model names, checked against the MLflow model catalog;    *)
(*   - MySQLHandler (mysql_handler.py): one MySQL connection per call.     *)
(* Every handler method is a pure operator from the state it reads and its *)
(* inputs to the state it leaves and what the caller sees (an exception,   *)
(* a return value, what was printed); an action applies the operator.      *)
(***************************************************************************)
EXTENDS Naturals, Sequences, FiniteSets, TLC

VARIABLES
    \* ---- MLflowIntegration
    models,       \* rows of the sqlite table models(model_name, format, target, url)
    connection,   \* self.connection: "None" or "MlflowClient"
    upstream,     \* the MLflow catalog: model name -> "absent" | "empty" | "ready"
    selPc,        \* select_query: "idle", or "checked" after lines 176-183
    selStmt,      \* the statement of the select_query call in progress
    selSeen,      \* mlflow_models (line 178) of the call in progress
    res,          \* what the last completed MLflowIntegration call did
    \* ---- MySQLHandler
    serverUp,     \* whether mysql.connector.connect can reach the server
    baseHasDb,    \* whether BaseIntegration sets self.mindsdb_database
    myPc,         \* "idle" | "connect" | "setup" | "unwind"
    myOp,         \* the public method being executed
    myDepth,      \* frames of run_native_query/check_status -> connect -> _setup
    myOpened,     \* connections the call in progress has opened
    myClosed,     \* connections the call in progress has closed
    myExecuted,   \* times the call in progress has executed the caller's query
    myExc,        \* the exception in flight
    myRes         \* what the last completed MySQLHandler call did

mlVars == <<models, connection, upstream, selPc, selStmt, selSeen, res>>
myVars == <<serverUp, baseHasDb, myPc, myOp, myDepth, myOpened, myClosed,
            myExecuted, myExc, myRes>>
vars == <<mlVars, myVars>>

\* ------------------------------------------------------------------ bounds
NumNames == 2
NumCols == 2
MaxDepth == 2

NamePool == <<"m1", "m2", "m3", "m4">>
Names == {NamePool[i] : i \in 1..NumNames}
ColPool == <<"a", "b", "c", "d">>
Cols == {ColPool[i] : i \in 1..NumCols}

\* ------------------------------------------------------------ Python names
\* The names bound at module level in mlflow_integration.py (imports and the
\* class).  The script at the end binds more, but it stops at line 240:
\* MySQLHandler('test_handler', **kwargs) lacks the positional `name` of
\* MySQLHandler.__init__(self, config, name, **kwargs), so line 244, which would
\* bind `parsed`, is never run.
MLflowGlobals ==
    {"os", "sqlite3", "requests", "literal_eval", "List", "Union", "Optional",
     "datetime", "PredictiveHandler", "Config", "mindsdb_version", "mark_process",
     "ProblemDefinition", "db", "ModelController", "parse_sql", "CreateDatasource",
     "RetrainPredictor", "CreatePredictor", "DropDatasource", "DropPredictor",
     "CreateView", "mlflow", "MlflowClient", "pd", "MLflowIntegration"}

\* The names bound at module level in mysql_handler.py.
MySQLGlobals == {"mysql", "closing", "BaseIntegration", "MySQLHandler"}

\* ------------------------------------------------------------------ values
NoError == "none"

StatementKinds ==
    {"CreatePredictor", "DropPredictor", "Select", "RetrainPredictor", "CreateView"}

Row(name, fmt, target, url) ==
    [model_name |-> name, format |-> fmt, target |-> target, url |-> url]

\* The statements the parser hands over: a name, and for CREATE PREDICTOR the
\* target and the USING values.
Statements ==
    {[kind |-> k, name |-> n, target |-> "y", format |-> "mlflow",
      url |-> "http://host/invocations"] : k \in StatementKinds, n \in Names}

NoStmt == [kind |-> "", name |-> "", target |-> "", format |-> "", url |-> ""]

\* connection.list_registered_models(): the names the catalog holds.
list_registered_models(up) == {n \in DOMAIN up : up[n] # "absent"}

\* What a call leaves behind: the table, and what its caller sees.
Outcome(m, raised, printed, ret, queried, seen, posted) ==
    [models |-> m, raised |-> raised, printed |-> printed, ret |-> ret,
     queried |-> queried, seen |-> seen, posted |-> posted]

NoCall ==
    [op |-> "none", kind |-> "", name |-> "", raised |-> NoError, printed |-> "",
     ret |-> "None", queried |-> FALSE, seen |-> {}, posted |-> FALSE,
     before |-> <<>>, conn |-> "None"]

Done(op, stmt, before, conn, o) ==
    [op |-> op, kind |-> stmt.kind, name |-> stmt.name, raised |-> o.raised,
     printed |-> o.printed, ret |-> o.ret, queried |-> o.queried, seen |-> o.seen,
     posted |-> o.posted, before |-> before, conn |-> conn]


\* ------------------------------------------------------- MLflowIntegration
InSeq(x, s) == \E i \in 1..Len(s) : s[i] = x

\* get_tables: SELECT model_name FROM models, in row order.
MLflow_get_tables(m) == [i \in 1..Len(m) |-> m[i].model_name]

\* self.connection.<method>(...): None has no such attribute; a client sends the
\* request, which fails when the tracking server cannot be reached.
CatalogCall(conn, reach) ==
    IF conn # "MlflowClient" THEN "AttributeError"
    ELSE IF ~reach THEN "MlflowException"
    ELSE NoError

\* check_status: the assert fails unless the connection is an MlflowClient, and
\* the AssertionError is caught and returned inside the descriptor.
MLflow_check_status(m, conn) ==
    IF conn = "MlflowClient"
    THEN Outcome(m, NoError, "", "status200", FALSE, {}, FALSE)
    ELSE Outcome(m, NoError, "", "status503", FALSE, {}, FALSE)

\* connect: the client is built (MlflowClient(...) may reject its URIs), stored,
\* and the status returned.
MLflow_connect(m, conn, built) ==
    IF built
    THEN [connection |-> "MlflowClient", out |-> MLflow_check_status(m, "MlflowClient")]
    ELSE [connection |-> conn,
          out |-> Outcome(m, "MlflowException", "", "None", FALSE, {}, FALSE)]

\* The row CREATE PREDICTOR inserts (lines 149-158).
LinkRow(stmt) == Row(stmt.name, stmt.format, stmt.target, stmt.url)

\* Line 165: the DELETE is not an f-string; it names the literal text.
DropKey(predictor_name) == "{predictor_name}"

DeleteRows(m, key) == SelectSeq(m, LAMBDA r : r.model_name # key)

\* Lines 168-169: any other statement type.
Unsupported_Silent(m) == Outcome(m, NoError, "", "None", FALSE, {}, FALSE)

Unsupported(m) ==
    Outcome(m, "Exception(Query type not supported)", "", "None", FALSE, {}, FALSE)

\* run_native_query, lines 135-169.
MLflow_run_native_query(stmt, m, conn, up, reach) ==
    IF stmt.kind = "CreatePredictor" THEN
        LET call == CatalogCall(conn, reach)
            mlflow_models == list_registered_models(up)
        IN  IF call = "AttributeError"
            THEN Outcome(m, call, "", "None", FALSE, {}, FALSE)
            ELSE IF call # NoError
            THEN Outcome(m, call, "", "None", TRUE, {}, FALSE)
            ELSE IF stmt.name \notin mlflow_models
            THEN Outcome(m, NoError, "Error: this predictor is not registered in mlflow.",
                         "None", TRUE, mlflow_models, FALSE)
            ELSE IF InSeq(stmt.name, MLflow_get_tables(m))
            THEN Outcome(m, NoError, "Error: this model is already registered!",
                         "None", TRUE, mlflow_models, FALSE)
            ELSE Outcome(Append(m, LinkRow(stmt)), NoError, "", "None", TRUE,
                         mlflow_models, FALSE)
    ELSE IF stmt.kind = "DropPredictor" THEN
        \* line 163 reads `session`, which is no parameter and no module name
        IF "session" \notin MLflowGlobals
        THEN Outcome(m, "NameError", "", "None", FALSE, {}, FALSE)
        ELSE Outcome(DeleteRows(m, DropKey(stmt.name)), NoError, "", "None", FALSE,
                     {}, FALSE)
    ELSE Unsupported(m)

\* Line 95: table_name not in self.get_tables().
DescribeMissing_Unchecked(table_name, m) == FALSE

DescribeMissing(table_name, m) == ~InSeq(table_name, MLflow_get_tables(m))

\* describe_table, lines 91-113.
MLflow_describe_table(table_name, m, conn, up, reach) ==
    IF DescribeMissing(table_name, m)
    THEN Outcome(m, "Exception(Table not found.)", "", "None", FALSE, {}, FALSE)
    ELSE LET call == CatalogCall(conn, reach)
             seen == list_registered_models(up)
         IN  IF call = "AttributeError"
             THEN Outcome(m, call, "", "None", FALSE, {}, FALSE)
             ELSE IF call # NoError
             THEN Outcome(m, call, "", "None", TRUE, {}, FALSE)
             ELSE IF table_name \notin seen              \* models[table_name]
             THEN Outcome(m, "KeyError", "", "None", TRUE, seen, FALSE)
             ELSE IF up[table_name] = "empty"            \* latest_versions[-1]
             THEN Outcome(m, "IndexError", "", "None", TRUE, seen, FALSE)
             ELSE Outcome(m, NoError, "", "description", TRUE, seen, FALSE)

\* Line 179: not model_name in self.get_tables().
SelectMissing(model_name, m) == ~InSeq(model_name, MLflow_get_tables(m))

\* Line 181: not model_name in mlflow_models.
SelectStale_Unchecked(model_name, mlflow_models) == FALSE

SelectStale(model_name, mlflow_models) == model_name \notin mlflow_models

\* select_query, lines 176-183: the catalog is read first, then the two checks.
MLflow_select_check(stmt, m, conn, up, reach) ==
    LET call == CatalogCall(conn, reach)
        mlflow_models == list_registered_models(up)
    IN  IF call = "AttributeError"
        THEN Outcome(m, call, "", "None", FALSE, {}, FALSE)
        ELSE IF call # NoError
        THEN Outcome(m, call, "", "None", TRUE, {}, FALSE)
        ELSE IF SelectMissing(stmt.name, m)
        THEN Outcome(m, "Exception(Error, not found. Please create this predictor first.)",
                     "", "None", TRUE, mlflow_models, FALSE)
        ELSE IF SelectStale(stmt.name, mlflow_models)
        THEN Outcome(m, "Exception(Cannot connect with the model, it might not served.)",
                     "", "None", TRUE, mlflow_models, FALSE)
        ELSE Outcome(m, NoError, "", "None", TRUE, mlflow_models, FALSE)

\* select_query, lines 185-200: the row is read, the model fetched from the
\* catalog as it is now, the target checked against `parsed`, the request posted.
MLflow_select_invoke(stmt, m, seen, up, reach, answered) ==
    LET rows == SelectSeq(m, LAMBDA r : r.model_name = stmt.name)
    IN  IF rows = <<>>
        THEN Outcome(m, "IndexError", "", "None", TRUE, seen, FALSE)
        ELSE IF ~reach \/ stmt.name \notin list_registered_models(up)
        THEN Outcome(m, "MlflowException", "", "None", TRUE, seen, FALSE)
        ELSE IF "parsed" \notin MLflowGlobals
        THEN Outcome(m, "NameError", "", "None", TRUE, seen, FALSE)
        ELSE IF rows[1].target # stmt.target
        THEN Outcome(m, "Exception(Predictor will not be called, target column is not specified.)",
                     "", "None", TRUE, seen, FALSE)
        ELSE IF ~answered
        THEN Outcome(m, "ConnectionError", "", "None", TRUE, seen, TRUE)
        ELSE Outcome(m, NoError, "", "dataframe", TRUE, seen, TRUE)

\* ---- actions of MLflowIntegration
MLflowIdle == selPc = "idle"

Finish(op, stmt, o) ==
    /\ models' = o.models
    /\ res' = Done(op, stmt, models, connection, o)

Connect ==
    /\ MLflowIdle
    /\ \E built \in BOOLEAN :
         LET c == MLflow_connect(models, connection, built)
         IN  /\ connection' = c.connection
             /\ Finish("connect", NoStmt, c.out)
    /\ UNCHANGED <<upstream, selPc, selStmt, selSeen, myVars>>

CheckStatus ==
    /\ MLflowIdle
    /\ Finish("check_status", NoStmt, MLflow_check_status(models, connection))
    /\ UNCHANGED <<connection, upstream, selPc, selStmt, selSeen, myVars>>

DescribeTable ==
    /\ MLflowIdle
    /\ \E n \in Names, reach \in BOOLEAN :
         Finish("describe_table", [NoStmt EXCEPT !.name = n],
                MLflow_describe_table(n, models, connection, upstream, reach))
    /\ UNCHANGED <<connection, upstream, selPc, selStmt, selSeen, myVars>>

RunNativeQuery ==
    /\ MLflowIdle
    /\ \E stmt \in Statements, reach \in BOOLEAN :
         Finish("run_native_query", stmt,
                MLflow_run_native_query(stmt, models, connection, upstream, reach))
    /\ UNCHANGED <<connection, upstream, selPc, selStmt, selSeen, myVars>>

SelectCheck ==
    /\ MLflowIdle
    /\ \E stmt \in {s \in Statements : s.kind = "Select"}, reach \in BOOLEAN :
         LET o == MLflow_select_check(stmt, models, connection, upstream, reach)
         IN  IF o.raised # NoError
             THEN /\ Finish("select_query", stmt, o)
                  /\ UNCHANGED <<selPc, selStmt, selSeen>>
             ELSE /\ selPc' = "checked"
                  /\ selStmt' = stmt
                  /\ selSeen' = o.seen
                  /\ UNCHANGED <<models, res>>
    /\ UNCHANGED <<connection, upstream, myVars>>

SelectInvoke ==
    /\ selPc = "checked"
    /\ \E reach \in BOOLEAN, answered \in BOOLEAN :
         Finish("select_query", selStmt,
                MLflow_select_invoke(selStmt, models, selSeen, upstream, reach, answered))
    /\ selPc' = "idle"
    /\ selStmt' = NoStmt
    /\ selSeen' = {}
    /\ UNCHANGED <<connection, upstream, myVars>>

\* The catalog is another system's: models are registered, get versions and are
\* deleted there at any time.
UpstreamChange ==
    /\ \E n \in Names, s \in {"absent", "empty", "ready"} :
         /\ upstream[n] # s
         /\ upstream' = [upstream EXCEPT ![n] = s]
    /\ UNCHANGED <<models, connection, selPc, selStmt, selSeen, res, myVars>>

\* ------------------------------------------------------------ MySQLHandler
\* run_native_query(self, statement, query, session): three arguments, no
\* defaults (line 96).  Every caller inside the class passes the query alone.
RunNativeQueryParams == 3
QueryOnlyArgs == 1

Binds_Any(given, required) == TRUE

\* Python binds a call's positional arguments before the body runs.
Binds(given, required) == given = required

\* The semantic types of lightwood's dtype that the mapping names, and one it
\* does not.
SemanticTypes ==
    {"integer", "float", "binary", "date", "datetime", "categorical", "tags",
     "image", "video", "audio", "short_text", "rich_text", "quantity",
     "num_array", "cat_array", "num_tsarray", "cat_tsarray", "invalid"}

\* subtype_map (lines 152-172) as the dict display lists it; a key given twice
\* keeps its last value.
subtype_map ==
    << <<"integer", "int">>, <<"float", "double">>, <<"binary", "bool">>,
       <<"date", "Date">>, <<"datetime", "Datetime">>,
       <<"binary", "VARCHAR(500)">>, <<"categorical", "VARCHAR(500)">>,
       <<"tags", "VARCHAR(500)">>, <<"image", "VARCHAR(500)">>,
       <<"video", "VARCHAR(500)">>, <<"audio", "VARCHAR(500)">>,
       <<"short_text", "VARCHAR(500)">>, <<"rich_text", "VARCHAR(500)">>,
       <<"quantity", "VARCHAR(500)">>, <<"num_array", "VARCHAR(500)">>,
       <<"cat_array", "VARCHAR(500)">>, <<"num_tsarray", "VARCHAR(500)">>,
       <<"cat_tsarray", "VARCHAR(500)">>, <<"default", "VARCHAR(500)">> >>

MapKeys == {subtype_map[i][1] : i \in 1..Len(subtype_map)}

\* dict lookup: the last entry with the key.
MapLookup(key) ==
    LET hits == {i \in 1..Len(subtype_map) : subtype_map[i][1] = key}
        last == CHOOSE i \in hits : \A j \in hits : j <= i
    IN  subtype_map[last][2]

\* subtype_map.get(col_subtype, subtype_map.get('default')), line 178.
MapGet(col_subtype) ==
    IF col_subtype \in MapKeys THEN MapLookup(col_subtype) ELSE MapLookup("default")

ColumnSpec(name, type) == [name |-> name, type |-> type]

\* The loop of lines 175-183 over `columns`; a column missing from dtype_dict
\* raises KeyError inside the try, and the handler's `log` is no module name.
RECURSIVE ColumnDeclarations(_, _, _)
ColumnDeclarations(dtype_dict, predicted_cols, columns) ==
    IF columns = <<>> THEN [raised |-> NoError, columns |-> <<>>]
    ELSE LET name == Head(columns)
         IN  IF name \notin DOMAIN dtype_dict /\ "log" \notin MySQLGlobals
             THEN [raised |-> "NameError", columns |-> <<>>]
             ELSE LET rest == ColumnDeclarations(dtype_dict, predicted_cols, Tail(columns))
                      new_type == MapGet(dtype_dict[name])
                      mine == IF name \notin DOMAIN dtype_dict THEN <<>>
                              ELSE IF InSeq(name, predicted_cols)
                              THEN <<ColumnSpec(name, new_type),
                                     ColumnSpec(name \o "_original", new_type)>>
                              ELSE <<ColumnSpec(name, new_type)>>
                  IN  [raised |-> rest.raised,
                       columns |-> IF rest.raised = NoError THEN mine \o rest.columns
                                   ELSE <<>>]

\* _to_mysql_table, lines 151-185: building subtype_map reads `dtype`, which the
\* module never imports.
MySQL_to_mysql_table(dtype_dict, predicted_cols, columns) ==
    IF "dtype" \notin MySQLGlobals
    THEN [raised |-> "NameError", columns |-> <<>>]
    ELSE ColumnDeclarations(dtype_dict, predicted_cols, columns)

\* list(model_meta['dtype_dict'].keys()): the declared columns in dict order.
RECURSIVE KeysOf(_)
KeysOf(S) ==
    IF S = {} THEN <<>>
    ELSE LET i == CHOOSE i \in 1..Len(ColPool) :
                    /\ ColPool[i] \in S
                    /\ \A j \in 1..Len(ColPool) : ColPool[j] \in S => i <= j
         IN  <<ColPool[i]>> \o KeysOf(S \ {ColPool[i]})

\* Lines 132-137: the columns added for each predicted column.
RECURSIVE PredictedExtras(_, _)
PredictedExtras(dtype_dict, predict) ==
    IF predict = <<>> THEN <<>>
    ELSE LET col == Head(predict)
             bounds == IF dtype_dict[col] \in {"integer", "float"}
                       THEN <<ColumnSpec(col \o "_min", "double"),
                              ColumnSpec(col \o "_max", "double")>>
                       ELSE <<>>
         IN  <<ColumnSpec(col \o "_confidence", "double")>> \o bounds
             \o <<ColumnSpec(col \o "_explain", "varchar(500)")>>
             \o PredictedExtras(dtype_dict, Tail(predict))

\* _register_predictors, lines 119-149, for the first model of model_data_arr:
\* the column list is built, then the old table is dropped through
\* _unregister_predictor, which passes run_native_query the query alone.
MySQL_register_predictors(model_data_arr) ==
    IF model_data_arr = <<>>
    THEN [raised |-> NoError, columns |-> <<>>]
    ELSE LET model_meta == model_data_arr[1]
             predict == model_meta.predict.value  \* a bare name becomes [name]
             table == MySQL_to_mysql_table(model_meta.dtype_dict, predict,
                                           KeysOf(DOMAIN model_meta.dtype_dict))
         IN  IF table.raised # NoError
             THEN [raised |-> table.raised, columns |-> <<>>]
             ELSE LET columns_sql ==
                          table.columns
                          \o <<ColumnSpec("when_data", "varchar(500)"),
                               ColumnSpec("select_data_query", "varchar(500)")>>
                          \o PredictedExtras(model_meta.dtype_dict, predict)
                  IN  IF ~Binds(QueryOnlyArgs, RunNativeQueryParams)
                      THEN [raised |-> "TypeError", columns |-> columns_sql]
                      ELSE [raised |-> NoError, columns |-> columns_sql]

\* _setup, line 56: the f-string reads self.mindsdb_database, then
\* run_native_query is called with the query alone.
MySQL_setup(hasDb) ==
    IF ~hasDb THEN "AttributeError"
    ELSE IF ~Binds(QueryOnlyArgs, RunNativeQueryParams) THEN "TypeError"
    ELSE "call"

MySQL_check_status_Propagates(exc, is_connected) ==
    IF exc # NoError
    THEN [raised |-> exc, ret |-> "None", closed |-> 0, executed |-> 0]
    ELSE [raised |-> NoError, ret |-> IF is_connected THEN "True" ELSE "False",
          closed |-> 1, executed |-> 0]

\* check_status, lines 87-94: whatever connect() raises is caught.
MySQL_check_status(exc, is_connected) ==
    IF exc # NoError
    THEN [raised |-> NoError, ret |-> "False", closed |-> 0, executed |-> 0]
    ELSE [raised |-> NoError, ret |-> IF is_connected THEN "True" ELSE "False",
          closed |-> 1, executed |-> 0]

\* run_native_query, lines 96-107: connect() is called before the `with`, so
\* what it raises passes through; inside the `with` the connection is closed on
\* both ways out.
MySQL_run_native_query(exc, accepted) ==
    IF exc # NoError
    THEN [raised |-> exc, ret |-> "None", closed |-> 0, executed |-> 0]
    ELSE IF ~accepted
    THEN [raised |-> "ProgrammingError", ret |-> "None", closed |-> 1, executed |-> 1]
    ELSE [raised |-> NoError, ret |-> "rows", closed |-> 1, executed |-> 1]

\* The methods that call self.run_native_query(q).
QueryOnlyCallers ==
    {"get_tables", "get_views", "_unregister_predictor", "_get_row_count",
     "_get_columns", "describe_table"}

ModelMetas ==
    {[name |-> "p1", dtype_dict |-> d, predict |-> [isList |-> l, value |-> v]] :
        d \in UNION {[D -> {"integer", "float", "binary", "categorical", "invalid"}] :
                        D \in SUBSET Cols \ {{}}},
        l \in BOOLEAN,
        v \in UNION {[1..k -> Cols] : k \in 0..2}}

\* predict is a list of distinct declared columns, or one declared column.
WellFormed(mm) ==
    /\ \A i \in 1..Len(mm.predict.value) : mm.predict.value[i] \in DOMAIN mm.dtype_dict
    /\ \A i, j \in 1..Len(mm.predict.value) : i # j => mm.predict.value[i] # mm.predict.value[j]
    /\ ~mm.predict.isList => Len(mm.predict.value) = 1

MyDone(op, raised, ret, input, columns) ==
    [op |-> op, raised |-> raised, ret |-> ret, exc |-> myExc, opened |-> myOpened,
     closed |-> myClosed, executed |-> myExecuted, input |-> input,
     columns |-> columns]

\* ---- actions of MySQLHandler
MyBegin(op) ==
    /\ myOp' = op
    /\ myPc' = "connect"
    /\ myDepth' = 1
    /\ myOpened' = 0
    /\ myClosed' = 0
    /\ myExecuted' = 0
    /\ myExc' = NoError

\* A caller starts check_status() or run_native_query(statement, query, session).
MyCall ==
    /\ myPc = "idle"
    /\ \E op \in {"check_status", "run_native_query"} : MyBegin(op)
    /\ UNCHANGED <<serverUp, baseHasDb, myRes, mlVars>>

\* connect, line 38.
MyConnect ==
    /\ myPc = "connect"
    /\ IF serverUp
       THEN /\ myOpened' = myOpened + 1
            /\ myPc' = "setup"
            /\ UNCHANGED myExc
       ELSE /\ myExc' = "InterfaceError"
            /\ myPc' = "unwind"
            /\ UNCHANGED myOpened
    /\ UNCHANGED <<serverUp, baseHasDb, myOp, myDepth, myClosed, myExecuted, myRes, mlVars>>

\* connect, line 39: _setup.
MySetup ==
    /\ myPc = "setup"
    /\ LET s == MySQL_setup(baseHasDb)
       IN  IF s # "call"
           THEN /\ myExc' = s
                /\ myPc' = "unwind"
                /\ UNCHANGED myDepth
           ELSE IF myDepth < MaxDepth
           THEN /\ myDepth' = myDepth + 1
                /\ myPc' = "connect"
                /\ UNCHANGED myExc
           ELSE /\ myExc' = "RecursionError"
                /\ myPc' = "unwind"
                /\ UNCHANGED myDepth
    /\ UNCHANGED <<serverUp, baseHasDb, myOp, myOpened, myClosed, myExecuted, myRes, mlVars>>

\* The exception leaves connect() (its `con` is a local, dropped unclosed) and
\* reaches the public method.
MyFinish ==
    /\ myPc = "unwind"
    /\ LET o == IF myOp = "check_status"
                THEN MySQL_check_status(myExc, TRUE)
                ELSE MySQL_run_native_query(myExc, TRUE)
       IN  /\ myClosed' = myClosed + o.closed
           /\ myExecuted' = myExecuted + o.executed
           /\ myRes' = [MyDone(myOp, o.raised, o.ret, <<>>, <<>>)
                          EXCEPT !.closed = myClosed', !.executed = myExecuted']
    /\ myPc' = "idle"
    /\ myExc' = NoError
    /\ myDepth' = 0
    /\ UNCHANGED <<serverUp, baseHasDb, myOp, myOpened, mlVars>>

\* get_tables, get_views, describe_table, ...: self.run_native_query(q).
MyQueryOnlyCall ==
    /\ myPc = "idle"
    /\ \E op \in QueryOnlyCallers :
         IF Binds(QueryOnlyArgs, RunNativeQueryParams)
         THEN MyBegin(op) /\ UNCHANGED myRes
         ELSE /\ myOp' = op
              /\ myOpened' = 0
              /\ myClosed' = 0
              /\ myExecuted' = 0
              /\ myRes' = [op |-> op, raised |-> "TypeError", ret |-> "None",
                           exc |-> "TypeError", opened |-> 0, closed |-> 0,
                           executed |-> 0, input |-> <<>>, columns |-> <<>>]
              /\ UNCHANGED <<myPc, myDepth, myExc>>
    /\ UNCHANGED <<serverUp, baseHasDb, mlVars>>

\* A call that opens no connection: _register_predictors or _to_mysql_table.
MyLocal(op, arr, o) ==
    /\ myOp' = op
    /\ myOpened' = 0
    /\ myClosed' = 0
    /\ myExecuted' = 0
    /\ myRes' = [op |-> op, raised |-> o.raised, ret |-> "None", exc |-> o.raised,
                 opened |-> 0, closed |-> 0, executed |-> 0,
                 input |-> arr, columns |-> o.columns]

MyRegisterPredictors ==
    /\ myPc = "idle"
    /\ \E arr \in {<<>>} \cup {<<mm>> : mm \in {x \in ModelMetas : WellFormed(x)}} :
         MyLocal("_register_predictors", arr, MySQL_register_predictors(arr))
    /\ UNCHANGED <<serverUp, baseHasDb, myPc, myDepth, myExc, mlVars>>

MyToMysqlTable ==
    /\ myPc = "idle"
    /\ \E mm \in {x \in ModelMetas : WellFormed(x)} :
         MyLocal("_to_mysql_table", <<mm>>,
                 MySQL_to_mysql_table(mm.dtype_dict, mm.predict.value,
                                      KeysOf(DOMAIN mm.dtype_dict)))
    /\ UNCHANGED <<serverUp, baseHasDb, myPc, myDepth, myExc, mlVars>>
    /\ UNCHANGED <<serverUp, baseHasDb, myPc, myDepth, myExc, mlVars>>

\* The server comes and goes.
MyServerChange ==
    /\ serverUp' = ~serverUp
    /\ UNCHANGED <<baseHasDb, myPc, myOp, myDepth, myOpened, myClosed, myExecuted,
                   myExc, myRes, mlVars>>

MLflowInit ==
    /\ models = <<>>
    /\ connection = "None"
    /\ upstream \in [Names -> {"absent", "empty", "ready"}]
    /\ selPc = "idle"
    /\ selStmt = NoStmt
    /\ selSeen = {}
    /\ res = NoCall

MyNoCall ==
    [op |-> "none", raised |-> NoError, ret |-> "None", exc |-> NoError, opened |-> 0,
     closed |-> 0, executed |-> 0, input |-> <<>>, columns |-> <<>>]

MySQLIdle ==
    /\ myPc = "idle"
    /\ myOp = "none"
    /\ myDepth = 0
    /\ myOpened = 0
    /\ myClosed = 0
    /\ myExecuted = 0
    /\ myExc = NoError
    /\ myRes = MyNoCall

MySQLInit ==
    /\ serverUp \in BOOLEAN
    /\ baseHasDb \in BOOLEAN
    /\ MySQLIdle

\* ---- MLflowIntegration alone (the MySQL handler is constructed and unused)
Init ==
    /\ MLflowInit
    /\ serverUp = TRUE
    /\ baseHasDb = TRUE
    /\ MySQLIdle

Next ==
    \/ Connect
    \/ CheckStatus
    \/ DescribeTable
    \/ RunNativeQuery
    \/ SelectCheck
    \/ SelectInvoke
    \/ UpstreamChange

Spec == Init /\ [][Next]_vars

\* ---- MySQLHandler alone (the MLflow integration is constructed and unused)
InitMySQL ==
    /\ MLflowInit
    /\ upstream = [n \in Names |-> "absent"]
    /\ MySQLInit

NextMySQL ==
    \/ MyCall
    \/ MyConnect
    \/ MySetup
    \/ MyFinish
    \/ MyQueryOnlyCall
    \/ MyRegisterPredictors
    \/ MyToMysqlTable
    \/ MyServerChange

SpecMySQL == InitMySQL /\ [][NextMySQL]_vars

\* ---- a health check polling both handlers' check_status
NextStatus ==
    \/ Connect
    \/ CheckStatus
    \/ MyCall
    \/ MyConnect
    \/ MySetup
    \/ MyFinish
    \/ MyServerChange

SpecStatus == InitMySQL /\ [][NextStatus]_vars

\* ---- executes against the server: a caller runs one call to its end before
\* the next, and the interpreter keeps stepping a call that has begun.
NextExecute ==
    \/ MyCall
    \/ MyConnect
    \/ MySetup
    \/ MyFinish
    \/ MyQueryOnlyCall
    \/ MyServerChange

SpecExecute ==
    /\ InitMySQL
    /\ [][NextExecute]_vars
    /\ WF_vars(MyConnect)
    /\ WF_vars(MySetup)
    /\ WF_vars(MyFinish)

\* ------------------------------------------------------------------ claims
ToSet(s) == {s[i] : i \in 1..Len(s)}
RowsNamed(m, n) == Cardinality({i \in 1..Len(m) : m[i].model_name = n})
IsLink(r) == r.op = "run_native_query" /\ r.kind = "CreatePredictor"
IsUnlink(r) == r.op = "run_native_query" /\ r.kind = "DropPredictor"

\* C1: linking a name that is not linked and is in the catalog, then at once
\* unlinking it, leaves get_tables() with the names it had before the link.
C1_LinkUnlinkRestoresList ==
    [][(/\ IsLink(res)
        /\ ~InSeq(res.name, MLflow_get_tables(res.before))
        /\ res.name \in res.seen
        /\ IsUnlink(res')
        /\ res'.name = res.name)
       => ToSet(MLflow_get_tables(models')) = ToSet(MLflow_get_tables(res.before))]_vars

\* C2: linking a name of the catalog twice in a row raises an error to the
\* caller on the second call and leaves exactly one row for the name.
C2_SecondLinkRaises ==
    [][(/\ IsLink(res) /\ res.name \in res.seen
        /\ IsLink(res') /\ res'.name = res.name /\ res'.name \in res'.seen
        /\ res' # res)
       => (res'.raised # NoError /\ RowsNamed(models', res'.name) = 1)]_vars

\* The part of C2 the code keeps: no name ever has two rows.
C2_AtMostOneRow == \A n \in Names : RowsNamed(models, n) <= 1

\* C3: linking a name the catalog does not hold raises an error to the caller
\* and leaves the models table as it was.
C3_UnknownUpstreamRaises ==
    (/\ IsLink(res)
     /\ res.conn = "MlflowClient"
     /\ res.raised # "MlflowException"
     /\ res.name \notin res.seen)
    => (res.raised # NoError /\ models = res.before)

\* The part of C3 the code keeps: the table is unchanged.
C3_TableUnchanged ==
    (IsLink(res) /\ res.name \notin res.seen) => models = res.before

\* C4: when an execute or a status check has returned or raised, every
\* connection it opened has been closed.
C4_NoLeakedConnection ==
    (myPc = "idle" /\ myRes.op \in {"run_native_query", "check_status"})
    => myRes.closed = myRes.opened

IsNumericType(t) == t \in {"int", "double"}
IsTextType(t) == t \in {"VARCHAR(500)", "varchar(500)"}
SpecsNamed(cols, n) == {i \in 1..Len(cols) : cols[i].name = n}
HasNumeric(cols, n) == \E i \in SpecsNamed(cols, n) : IsNumericType(cols[i].type)
HasText(cols, n) == \E i \in SpecsNamed(cols, n) : IsTextType(cols[i].type)

\* C5: the column list _register_predictors generates has exactly one column
\* for every declared column, a numeric <p>_confidence for every predicted
\* column p, and for an integer or float p numeric <p>_min and <p>_max and a
\* text <p>_explain.
C5_RegisteredColumns ==
    (myRes.op = "_register_predictors" /\ myRes.input # <<>>)
    => LET mm == myRes.input[1]
           cols == myRes.columns
       IN  /\ \A c \in DOMAIN mm.dtype_dict : Cardinality(SpecsNamed(cols, c)) = 1
           /\ \A p \in ToSet(mm.predict.value) :
                /\ HasNumeric(cols, p \o "_confidence")
                /\ mm.dtype_dict[p] \in {"integer", "float"}
                   => /\ HasNumeric(cols, p \o "_min")
                      /\ HasNumeric(cols, p \o "_max")
                      /\ HasText(cols, p \o "_explain")

\* C6: _to_mysql_table does not raise on a column whose semantic type the
\* mapping lacks, and emits the column as VARCHAR(500).
C6_UnknownTypeFallsBack ==
    (myRes.op = "_to_mysql_table")
    => LET mm == myRes.input[1]
       IN  \A c \in DOMAIN mm.dtype_dict :
             mm.dtype_dict[c] \notin MapKeys
             => /\ myRes.raised = NoError
                /\ \E i \in SpecsNamed(myRes.columns, c) :
                     myRes.columns[i].type = "VARCHAR(500)"

\* C7: describe_table on a name with no row raises "Table not found." without
\* asking the catalog and without changing the models table.
C7_DescribeUnlinkedNotFound ==
    (res.op = "describe_table" /\ ~InSeq(res.name, MLflow_get_tables(res.before)))
    => /\ res.raised = "Exception(Table not found.)"
       /\ ~res.queried
       /\ models = res.before

C7_Witness ==
    /\ res.op = "describe_table"
    /\ ~InSeq(res.name, MLflow_get_tables(res.before))
    /\ res.before # <<>>
    /\ res.conn = "MlflowClient"
    /\ res.name \in list_registered_models(upstream)
    /\ res.raised = "Exception(Table not found.)"

\* C8: run_native_query on a statement that is neither CREATE PREDICTOR nor
\* DROP PREDICTOR raises "not supported", leaves the models table as it was and
\* sends nothing to the catalog or the model.
C8_UnsupportedStatementRaises ==
    (res.op = "run_native_query" /\ res.kind \notin {"CreatePredictor", "DropPredictor"})
    => /\ res.raised = "Exception(Query type not supported)"
       /\ models = res.before
       /\ ~res.queried
       /\ ~res.posted

C8_Witness ==
    /\ res.op = "run_native_query"
    /\ res.kind = "Select"
    /\ res.before # <<>>
    /\ res.conn = "MlflowClient"
    /\ res.raised = "Exception(Query type not supported)"

\* C9: select_query posts to the model only for a name that has a row and that
\* the catalog listed in this call; a name with no row, or with a row and not
\* listed (a stale link), makes the call raise with nothing posted.  When the
\* catalog answered, the error is the one of the failed check.
C9_PostOnlyAfterBothChecks ==
    res.op = "select_query"
    => LET local == InSeq(res.name, MLflow_get_tables(res.before))
           live == res.name \in res.seen
           answered == res.conn = "MlflowClient" /\ res.raised # "MlflowException"
       IN  /\ res.posted => (local /\ live)
           /\ (~local \/ ~live) => (res.raised # NoError /\ ~res.posted)
           /\ (answered /\ ~local)
              => res.raised = "Exception(Error, not found. Please create this predictor first.)"
           /\ (answered /\ local /\ ~live)
              => res.raised = "Exception(Cannot connect with the model, it might not served.)"

C9_Witness ==
    /\ res.op = "select_query"
    /\ InSeq(res.name, MLflow_get_tables(res.before))
    /\ res.name \notin res.seen
    /\ res.conn = "MlflowClient"
    /\ res.raised = "Exception(Cannot connect with the model, it might not served.)"
    /\ ~res.posted

\* C10: neither check_status raises: MLflowIntegration's returns status 200 for
\* an MlflowClient connection and status 503 otherwise; MySQLHandler's returns
\* a boolean, False when connect() or _setup() failed.
C10_StatusChecksNeverRaise ==
    /\ res.op = "check_status"
       => /\ res.raised = NoError
          /\ res.ret = IF res.conn = "MlflowClient" THEN "status200" ELSE "status503"
    /\ myRes.op = "check_status"
       => /\ myRes.raised = NoError
          /\ myRes.ret \in {"True", "False"}
          /\ myRes.exc # NoError => myRes.ret = "False"

C10_Witness ==
    /\ res.op = "check_status"
    /\ res.conn = "None"
    /\ res.ret = "status503"
    /\ myPc = "idle"
    /\ myRes.op = "check_status"
    /\ myRes.exc = "TypeError"
    /\ myRes.opened = 1
    /\ myRes.ret = "False"

\* C11: a run_native_query(statement, query, session) call never holds more
\* than one frame of run_native_query -> connect -> _setup, opens at most one
\* connection, executes the caller's query at most once, and once begun always
\* ends, returning or raising.
C11_ExecuteTerminatesBounded ==
    /\ [](myOp = "run_native_query"
          => (myDepth <= 1 /\ myOpened <= 1 /\ myExecuted <= 1))
    /\ (myOp = "run_native_query" /\ myPc # "idle")
       ~> (myPc = "idle" /\ myRes.op = "run_native_query"
           /\ myRes.opened <= 1 /\ myRes.executed <= 1)

C11_Witness ==
    /\ serverUp
    /\ myPc = "idle"
    /\ myRes.op = "run_native_query"
    /\ myRes.opened = 1
    /\ myRes.raised = "TypeError"

=============================================================================
